---- MODULE Spec2Model ----
(***************************************************************************)
(* KrakenAdapter (pulse_kraken/adapter.py): translation of PULSE messages  *)
(* into Kraken REST request descriptors (to_native and its builders), the  *)
(* transport step (call_api: credential check, nonce, signing, envelope    *)
(* unwrapping, exception classification) and the session life cycle        *)
(* (connect, disconnect).                                                  *)
(*                                                                         *)
(* Representation.  A Python text value is a sequence of one-character     *)
(* strings, so that upper()/lower() are computed character by character.   *)
(* A Python value is a tagged record (PyStr, PyInt, PyFloat, PyNone).      *)
(* A dict whose order is irrelevant (message parameters, JSON envelope) is *)
(* a function on its keys; the parameter mapping of a descriptor, whose    *)
(* insertion order is signed, is a sequence of [k, v] entries.             *)
(***************************************************************************)
EXTENDS Integers, Sequences, FiniteSets, TLC

VARIABLES
    _api_key,       \* self._api_key: None or a string
    _api_secret,    \* self._api_secret: None or a (base64) string
    _session,       \* self._session: 0 for None, else the index of a session
    sessions,       \* sessions[i]: how many times session i was closed
    connected,      \* self.connected
    clock,          \* the wall clock, int(time.time() * 1000)
    nonces,         \* the nonces of the signed calls issued so far, in order
    signings,       \* the runs of the signer so far: arguments and result
    sent,           \* the HTTP requests the last operation handed to the session
    message,        \* the message last given to to_native
    native,         \* what to_native did with it (return or raise)
    call,           \* the last operation on the adapter and its inputs
    outcome         \* what that operation did (return or raise)

vars == <<_api_key, _api_secret, _session, sessions, connected, clock,
          nonces, signings, sent, message, native, call, outcome>>

-----------------------------------------------------------------------------
(* Python values *)

None == "None"

PyNone == [t |-> "None", s |-> <<>>, n |-> 0, f |-> <<>>]
PyStr(chars) == [t |-> "str", s |-> chars, n |-> 0, f |-> <<>>]
PyInt(i) == [t |-> "int", s |-> <<>>, n |-> i, f |-> <<>>]
\* a float written whole.frac, in the range where repr() is positional
PyFloat(whole, frac) == [t |-> "float", s |-> <<>>, n |-> whole, f |-> frac]

\* bool(v) for the values above
Truthy(v) ==
    CASE v.t = "None" -> FALSE
      [] v.t = "str" -> v.s # <<>>
      [] v.t = "int" -> v.n # 0
      [] v.t = "float" -> v.n # 0 \/ \E i \in DOMAIN v.f : v.f[i] # 0

\* dict.get(k, default) and k in dict
Get(d, k, default) == IF k \in DOMAIN d THEN d[k] ELSE default

LowerChars == <<"a", "b", "c", "d", "e", "f", "g", "h", "i", "j", "k", "l", "m",
                "n", "o", "p", "q", "r", "s", "t", "u", "v", "w", "x", "y", "z">>
UpperChars == <<"A", "B", "C", "D", "E", "F", "G", "H", "I", "J", "K", "L", "M",
                "N", "O", "P", "Q", "R", "S", "T", "U", "V", "W", "X", "Y", "Z">>
DigitChars == <<"0", "1", "2", "3", "4", "5", "6", "7", "8", "9">>

IndexOf(c, seq) ==
    IF \E i \in DOMAIN seq : seq[i] = c
    THEN CHOOSE i \in DOMAIN seq : seq[i] = c
    ELSE 0

\* str.upper() and str.lower(), character by character
upper(chars) ==
    [i \in DOMAIN chars |->
        LET j == IndexOf(chars[i], LowerChars)
        IN IF j = 0 THEN chars[i] ELSE UpperChars[j]]

lower(chars) ==
    [i \in DOMAIN chars |->
        LET j == IndexOf(chars[i], UpperChars)
        IN IF j = 0 THEN chars[i] ELSE LowerChars[j]]

RECURSIVE NatDigits(_)
NatDigits(n) ==
    IF n < 10 THEN <<DigitChars[n + 1]>>
    ELSE NatDigits(n \div 10) \o <<DigitChars[(n % 10) + 1]>>

\* str(int)
IntToStr(i) == IF i < 0 THEN <<"-">> \o NatDigits(0 - i) ELSE NatDigits(i)

\* str(v): the characters of the string form of a value
str(v) ==
    CASE v.t = "str" -> v.s
      [] v.t = "int" -> IntToStr(v.n)
      [] v.t = "float" ->
            IntToStr(v.n) \o <<".">> \o [i \in DOMAIN v.f |-> DigitChars[v.f[i] + 1]]
      [] v.t = "None" -> <<"N", "o", "n", "e">>

\* the characters of a text joined into one string
RECURSIVE Text(_)
Text(chars) == IF chars = <<>> THEN "" ELSE Head(chars) \o Text(Tail(chars))

\* sep.join(strings)
RECURSIVE join(_, _)
join(sep, strings) ==
    IF strings = <<>> THEN ""
    ELSE IF Len(strings) = 1 THEN strings[1]
    ELSE strings[1] \o sep \o join(sep, Tail(strings))

\* what a call did
Return(v) == [kind |-> "return", value |-> v]
Raise(type, msg) == [kind |-> "raise", type |-> type, msg |-> msg]

-----------------------------------------------------------------------------
(* The tables *)

ENDPOINTS ==
    [ticker |-> "/0/public/Ticker",
     ohlc |-> "/0/public/OHLC",
     depth |-> "/0/public/Depth",
     server_time |-> "/0/public/Time",
     balance |-> "/0/private/Balance",
     add_order |-> "/0/private/AddOrder",
     cancel_order |-> "/0/private/CancelOrder",
     open_orders |-> "/0/private/OpenOrders",
     query_orders |-> "/0/private/QueryOrders"]

\* the keys of ACTION_MAP, in insertion order
ACTION_KEYS ==
    <<"ACT.QUERY.DATA", "ACT.QUERY.STATUS", "ACT.TRANSACT.REQUEST",
      "ACT.CANCEL", "ACT.QUERY.LIST", "ACT.QUERY.BALANCE">>

\* ACTION_MAP with the cancel action routed to the status operation
ACTION_MAP_misrouted ==
    ("ACT.QUERY.DATA" :> "query") @@
    ("ACT.QUERY.STATUS" :> "order_status") @@
    ("ACT.TRANSACT.REQUEST" :> "place_order") @@
    ("ACT.CANCEL" :> "order_status") @@
    ("ACT.QUERY.LIST" :> "open_orders") @@
    ("ACT.QUERY.BALANCE" :> "balance")

ACTION_MAP ==
    ("ACT.QUERY.DATA" :> "query") @@
    ("ACT.QUERY.STATUS" :> "order_status") @@
    ("ACT.TRANSACT.REQUEST" :> "place_order") @@
    ("ACT.CANCEL" :> "cancel_order") @@
    ("ACT.QUERY.LIST" :> "open_orders") @@
    ("ACT.QUERY.BALANCE" :> "balance")

BASE_URL == "https://api.kraken.com"

\* one entry of a parameter mapping
Entry(k, v) == [k |-> k, v |-> v]

\* a native request descriptor
Descriptor(method, endpoint, params, signed) ==
    [method |-> method, endpoint |-> endpoint, params |-> params, signed |-> signed]

-----------------------------------------------------------------------------
(* Request builders *)

W_price == <<"p", "r", "i", "c", "e">>
W_24h == <<"2", "4", "h">>
W_klines == <<"k", "l", "i", "n", "e", "s">>
W_depth == <<"d", "e", "p", "t", "h">>
W_market == <<"m", "a", "r", "k", "e", "t">>
W_limit == <<"l", "i", "m", "i", "t">>

\* x.upper() / x.lower() on a value: a value that is no str has no such method
AttributeError(v, method) ==
    Raise("AttributeError", "'" \o v.t \o "' object has no attribute '" \o method \o "'")

\* _build_query_request without the symbol check of the klines branch
_build_query_request_unchecked(params) ==
    LET symbol == Get(params, "symbol", PyNone)
        query_type == Get(params, "type", PyStr(W_price))
    IN
    IF query_type \in {PyStr(W_price), PyStr(W_24h)} THEN
        IF Truthy(symbol) THEN
            IF symbol.t # "str" THEN AttributeError(symbol, "upper")
            ELSE Return(Descriptor("GET", ENDPOINTS.ticker,
                                   <<Entry("pair", PyStr(upper(symbol.s)))>>, FALSE))
        ELSE Return(Descriptor("GET", ENDPOINTS.ticker, <<>>, FALSE))
    ELSE IF query_type = PyStr(W_klines) THEN
        IF symbol.t # "str" THEN AttributeError(symbol, "upper")
        ELSE Return(Descriptor("GET", ENDPOINTS.ohlc,
                               <<Entry("pair", PyStr(upper(symbol.s))),
                                 Entry("interval", Get(params, "interval", PyInt(60)))>>,
                               FALSE))
    ELSE IF query_type = PyStr(W_depth) THEN
        IF ~Truthy(symbol) THEN Raise("AdapterError", "Symbol required for depth query.")
        ELSE IF symbol.t # "str" THEN AttributeError(symbol, "upper")
        ELSE Return(Descriptor("GET", ENDPOINTS.depth,
                               <<Entry("pair", PyStr(upper(symbol.s))),
                                 Entry("count", Get(params, "limit", PyInt(20)))>>,
                               FALSE))
    ELSE Raise("AdapterError",
               "Unknown query type '" \o Text(str(query_type))
                   \o "'. Use: price, 24h, klines, depth.")

_build_query_request(params) ==
    LET symbol == Get(params, "symbol", PyNone)
        query_type == Get(params, "type", PyStr(W_price))
    IN
    IF query_type \in {PyStr(W_price), PyStr(W_24h)} THEN
        IF Truthy(symbol) THEN
            IF symbol.t # "str" THEN AttributeError(symbol, "upper")
            ELSE Return(Descriptor("GET", ENDPOINTS.ticker,
                                   <<Entry("pair", PyStr(upper(symbol.s)))>>, FALSE))
        ELSE Return(Descriptor("GET", ENDPOINTS.ticker, <<>>, FALSE))
    ELSE IF query_type = PyStr(W_klines) THEN
        IF ~Truthy(symbol) THEN Raise("AdapterError", "Symbol required for klines query.")
        ELSE IF symbol.t # "str" THEN AttributeError(symbol, "upper")
        ELSE Return(Descriptor("GET", ENDPOINTS.ohlc,
                               <<Entry("pair", PyStr(upper(symbol.s))),
                                 Entry("interval", Get(params, "interval", PyInt(60)))>>,
                               FALSE))
    ELSE IF query_type = PyStr(W_depth) THEN
        IF ~Truthy(symbol) THEN Raise("AdapterError", "Symbol required for depth query.")
        ELSE IF symbol.t # "str" THEN AttributeError(symbol, "upper")
        ELSE Return(Descriptor("GET", ENDPOINTS.depth,
                               <<Entry("pair", PyStr(upper(symbol.s))),
                                 Entry("count", Get(params, "limit", PyInt(20)))>>,
                               FALSE))
    ELSE Raise("AdapterError",
               "Unknown query type '" \o Text(str(query_type))
                   \o "'. Use: price, 24h, klines, depth.")

\* the required fields checked in another order
OrderRequired_reordered == <<"quantity", "side", "symbol">>

\* the fields _build_order_request requires, in the order it checks them
OrderRequired == <<"symbol", "side", "quantity">>

_build_order_request(params) ==
    LET missing == {i \in DOMAIN OrderRequired : OrderRequired[i] \notin DOMAIN params}
    IN
    IF missing # {} THEN
        LET first == CHOOSE i \in missing : \A j \in missing : i <= j
        IN Raise("AdapterError",
                 "Missing required field '" \o OrderRequired[first]
                     \o "' for order placement.")
    ELSE
        LET order_type == Get(params, "order_type", PyStr(W_market))
        IN
        IF params["symbol"].t # "str" THEN AttributeError(params["symbol"], "upper")
        ELSE IF params["side"].t # "str" THEN AttributeError(params["side"], "lower")
        ELSE IF order_type.t # "str" THEN AttributeError(order_type, "lower")
        ELSE
            LET order_params ==
                    <<Entry("pair", PyStr(upper(params["symbol"].s))),
                      Entry("type", PyStr(lower(params["side"].s))),
                      Entry("ordertype", PyStr(lower(order_type.s))),
                      Entry("volume", PyStr(str(params["quantity"])))>>
            IN
            IF order_params[3].v = PyStr(W_limit) THEN
                IF "price" \notin DOMAIN params
                THEN Raise("AdapterError", "Price required for LIMIT orders.")
                ELSE Return(Descriptor("POST", ENDPOINTS.add_order,
                                       order_params \o
                                           <<Entry("price", PyStr(str(params["price"])))>>,
                                       TRUE))
            ELSE Return(Descriptor("POST", ENDPOINTS.add_order, order_params, TRUE))

_build_cancel_request(params) ==
    IF "order_id" \notin DOMAIN params
    THEN Raise("AdapterError", "Order ID required for cancellation.")
    ELSE Return(Descriptor("POST", ENDPOINTS.cancel_order,
                           <<Entry("txid", PyStr(str(params["order_id"])))>>, TRUE))

_build_status_request(params) ==
    IF "order_id" \notin DOMAIN params
    THEN Raise("AdapterError", "Order ID required for status query.")
    ELSE Return(Descriptor("POST", ENDPOINTS.query_orders,
                           <<Entry("txid", PyStr(str(params["order_id"])))>>, TRUE))

_build_open_orders_request(params) ==
    Return(Descriptor("POST", ENDPOINTS.open_orders, <<>>, TRUE))

_build_balance_request ==
    Return(Descriptor("POST", ENDPOINTS.balance, <<>>, TRUE))

\* repr(list(ACTION_MAP.keys()))
SupportedList ==
    "[" \o join(", ", [i \in DOMAIN ACTION_KEYS |-> "'" \o ACTION_KEYS[i] \o "'"]) \o "]"

\* a message is [action, parameters]; parameters may be missing from its content
to_native(msg) ==
    LET action == msg.action
        params == Get(msg, "parameters", <<>>)
        operation == Get(ACTION_MAP, action, None)
    IN
    IF operation = None THEN
        Raise("AdapterError",
              "Unsupported action '" \o action \o "'. Supported: " \o SupportedList)
    ELSE IF operation = "query" THEN _build_query_request(params)
    ELSE IF operation = "place_order" THEN _build_order_request(params)
    ELSE IF operation = "cancel_order" THEN _build_cancel_request(params)
    ELSE IF operation = "order_status" THEN _build_status_request(params)
    ELSE IF operation = "open_orders" THEN _build_open_orders_request(params)
    ELSE IF operation = "balance" THEN _build_balance_request
    ELSE Raise("AdapterError", "Unknown operation: " \o operation)

-----------------------------------------------------------------------------
(* The messages given to to_native *)

\* all dicts whose keys are among keys (a sequence), key k taking a value of V[k]
RECURSIVE Dicts(_, _)
Dicts(keys, V) ==
    IF keys = <<>> THEN {<<>>}
    ELSE LET rest == Dicts(Tail(keys), V)
         IN rest \cup {(Head(keys) :> v) @@ d : v \in V[Head(keys)], d \in rest}

Symbols ==
    {PyStr(<<"x", "b", "t">>), PyStr(<<"X", "b", "T">>), PyStr(<<"E", "T", "H", "1">>)}

QueryParams ==
    Dicts(<<"symbol", "type", "interval", "limit">>,
          [symbol |-> Symbols \cup {PyStr(<<>>), PyNone},
           type |-> {PyStr(W_price), PyStr(W_24h), PyStr(W_klines), PyStr(W_depth),
                     PyStr(upper(W_klines)), PyStr(<<"t", "r", "a", "d", "e", "s">>)},
           interval |-> {PyInt(5)},
           limit |-> {PyInt(10)}])

OrderParams ==
    Dicts(<<"symbol", "side", "quantity", "order_type", "price">>,
          [symbol |-> {PyStr(<<"x", "b", "t">>), PyStr(<<"E", "T", "H", "1">>)},
           side |-> {PyStr(<<"B", "U", "Y">>), PyStr(<<"s", "e", "l", "l">>),
                     PyStr(<<"S", "e", "l", "l">>)},
           quantity |-> {PyInt(1), PyFloat(0, <<0, 0, 1>>), PyStr(<<"0", ".", "5">>)},
           order_type |-> {PyStr(W_market), PyStr(W_limit), PyStr(upper(W_limit)),
                           PyStr(<<"L", "i", "m", "i", "t">>),
                           PyStr(<<"s", "t", "o", "p", "-", "l", "o", "s", "s">>)},
           price |-> {PyInt(2000), PyFloat(65000, <<5>>)}])

OrderIdParams ==
    Dicts(<<"order_id", "symbol">>,
          [order_id |-> {PyStr(<<"O", "A", "B", "C", "1", "2">>), PyInt(42)},
           symbol |-> {PyStr(<<"x", "b", "t">>)}])

NoParams == Dicts(<<"symbol">>, [symbol |-> {PyStr(<<"x", "b", "t">>)}])

UnknownActions == {"ACT.CREATE.TEXT", "act.cancel", ""}

Msg(action, parameters) == [action |-> action, parameters |-> parameters]

Messages ==
    {Msg("ACT.QUERY.DATA", p) : p \in QueryParams}
    \cup {Msg("ACT.TRANSACT.REQUEST", p) : p \in OrderParams}
    \cup {Msg(a, p) : a \in {"ACT.CANCEL", "ACT.QUERY.STATUS"}, p \in OrderIdParams}
    \cup {Msg(a, p) : a \in {"ACT.QUERY.LIST", "ACT.QUERY.BALANCE"} \cup UnknownActions,
                      p \in NoParams}
    \cup {[action |-> a] : a \in {"ACT.QUERY.DATA", "ACT.QUERY.LIST", "ACT.CANCEL"}}

-----------------------------------------------------------------------------
(* State *)

NoCall == [op |-> "none"]
NoOutcome == [kind |-> "none"]

Credentials ==
    {<<None, None>>, <<"test-key", None>>, <<None, "dGVzdC1zZWNyZXQ=">>,
     <<"", "dGVzdC1zZWNyZXQ=">>, <<"test-key", "">>,
     <<"test-key", "dGVzdC1zZWNyZXQ=">>, <<"test-key", "abc">>}

\* the clock reading at construction
Epoch == 99

\* __init__
Init ==
    /\ \E c \in Credentials : _api_key = c[1] /\ _api_secret = c[2]
    /\ _session = 0
    /\ sessions = <<>>
    /\ connected = FALSE
    /\ clock = Epoch
    /\ nonces = <<>>
    /\ signings = {}
    /\ sent = <<>>
    /\ message = <<>>
    /\ native = NoOutcome
    /\ call = NoCall
    /\ outcome = NoOutcome

\* a message handed to the translator of a freshly constructed adapter
InitTranslate ==
    /\ _api_key = "test-key"
    /\ _api_secret = "dGVzdC1zZWNyZXQ="
    /\ _session = 0
    /\ sessions = <<>>
    /\ connected = FALSE
    /\ clock = Epoch
    /\ nonces = <<>>
    /\ signings = {}
    /\ sent = <<>>
    /\ message \in Messages
    /\ native = NoOutcome
    /\ call = NoCall
    /\ outcome = NoOutcome

\* adapter.to_native(message)
ToNative ==
    /\ native = NoOutcome
    /\ native' = to_native(message)
    /\ UNCHANGED <<_api_key, _api_secret, _session, sessions, connected, clock,
                   nonces, signings, sent, message, call, outcome>>

NextTranslate == ToNative

SpecTranslate == InitTranslate /\ [][NextTranslate]_vars

-----------------------------------------------------------------------------
(* Exceptions *)

\* the classes an exception of each type is an instance of (its own class and
\* its bases): requests.exceptions, the built-ins and pulse.adapter
MRO ==
    ("requests.ConnectionError" :>
        {"requests.ConnectionError", "requests.RequestException", "OSError", "Exception"}) @@
    ("requests.ConnectTimeout" :>
        {"requests.ConnectTimeout", "requests.ConnectionError", "requests.Timeout",
         "requests.RequestException", "OSError", "Exception"}) @@
    ("requests.ReadTimeout" :>
        {"requests.ReadTimeout", "requests.Timeout", "requests.RequestException",
         "OSError", "Exception"}) @@
    ("requests.HTTPError" :>
        {"requests.HTTPError", "requests.RequestException", "OSError", "Exception"}) @@
    ("requests.ChunkedEncodingError" :>
        {"requests.ChunkedEncodingError", "requests.RequestException", "OSError",
         "Exception"}) @@
    ("requests.JSONDecodeError" :>
        {"requests.JSONDecodeError", "requests.RequestException", "ValueError",
         "Exception"}) @@
    ("ConnectionError" :> {"ConnectionError", "OSError", "Exception"}) @@
    ("TimeoutError" :> {"TimeoutError", "OSError", "Exception"}) @@
    ("binascii.Error" :> {"binascii.Error", "ValueError", "Exception"}) @@
    ("TypeError" :> {"TypeError", "Exception"}) @@
    ("AttributeError" :> {"AttributeError", "Exception"}) @@
    ("AdapterError" :> {"AdapterError", "Exception"}) @@
    ("AdapterConnectionError" :> {"AdapterConnectionError", "AdapterError", "Exception"})

\* isinstance(exc, classes), as an except clause tests it
IsInstance(exc, classes) == MRO[exc.type] \cap classes # {}

\* raise type(msg) from cause
RaiseFrom(type, msg, cause) ==
    [kind |-> "raise", type |-> type, msg |-> msg, cause |-> cause]

-----------------------------------------------------------------------------
(* The exchange: what the session does with one request *)

\* session.get / session.post raises
Fault(type, msg) == [kind |-> "fault", type |-> type, msg |-> msg]
\* a response whose body is the JSON object body
Response(status, body) == [kind |-> "response", status |-> status, json |-> TRUE, body |-> body]
\* a response whose body is no JSON
NotJson(status) == [kind |-> "response", status |-> status, json |-> FALSE, body |-> <<>>]
NoExchange == [kind |-> "none"]

Payload == [XXBTZUSD |-> "65000.00"]
Err1 == "EGeneral:Invalid arguments"
Err2 == "EOrder:Insufficient funds"

Faults ==
    {Fault("requests.ConnectionError", "refused"),
     Fault("requests.ConnectTimeout", "connect timed out"),
     Fault("requests.ReadTimeout", "read timed out"),
     Fault("requests.ChunkedEncodingError", "connection broken"),
     Fault("ConnectionError", "Network down"),
     Fault("TimeoutError", "timed out")}

Envelopes ==
    {[error |-> <<>>, result |-> Payload],
     [error |-> <<>>, result |-> <<>>],
     [result |-> Payload],
     [error |-> <<>>],
     [error |-> <<Err1>>, result |-> Payload],
     [error |-> <<Err1, Err2>>],
     [error |-> <<Err1>>, result |-> <<>>]}

Exchanges ==
    Faults \cup {Response(200, e) : e \in Envelopes} \cup {NotJson(200)}

\* resp.json()
json(resp) ==
    IF resp.json THEN Return(resp.body)
    ELSE Raise("requests.JSONDecodeError", "Expecting value")

\* resp.raise_for_status()
raise_for_status(resp) ==
    IF resp.status >= 400
    THEN Raise("requests.HTTPError", Text(IntToStr(resp.status)) \o " Error")
    ELSE Return(None)

-----------------------------------------------------------------------------
(* Signing *)

\* params[k] = v on an insertion-ordered dict
SetItem(params, k, v) ==
    IF \E i \in DOMAIN params : params[i].k = k
    THEN [i \in DOMAIN params |-> IF params[i].k = k THEN Entry(k, v) ELSE params[i]]
    ELSE Append(params, Entry(k, v))

\* urlencode(data); the values used here consist of unreserved characters
urlencode(data) ==
    join("&", [i \in DOMAIN data |-> data[i].k \o "=" \o Text(str(data[i].v))])

\* base64.b64decode(secret): fails on None and on a length that is no multiple
\* of four, otherwise the decoded bytes, kept as a term
b64decode(secret) ==
    IF secret = None
    THEN Raise("TypeError", "argument should be a bytes-like object or ASCII string")
    ELSE IF Len(secret) % 4 # 0 THEN Raise("binascii.Error", "Incorrect padding")
    ELSE Return(<<"b64decode", secret>>)

sha256(text) == <<"sha256", text>>
hmac_sha512(key, msg) == <<"hmac-sha512", key, msg>>
b64encode(bytes) == <<"b64encode", bytes>>

\* a signer that reads the clock for the nonce instead of taking the argument
_sign_request_reads_clock(api_key, api_secret, urlpath, nonce, data) ==
    LET encoded_data == urlencode(data)
        sha256_hash == sha256(Text(IntToStr(clock)) \o encoded_data)
        msg == <<urlpath, sha256_hash>>
        key == b64decode(api_secret)
    IN
    IF key.kind = "raise" THEN key
    ELSE Return(("API-Key" :> api_key) @@
                ("API-Sign" :> b64encode(hmac_sha512(key.value, msg))))

\* self._sign_request(urlpath, nonce, data), nonce a text
_sign_request(api_key, api_secret, urlpath, nonce, data) ==
    LET encoded_data == urlencode(data)
        sha256_hash == sha256(Text(nonce) \o encoded_data)
        msg == <<urlpath, sha256_hash>>
        key == b64decode(api_secret)
    IN
    IF key.kind = "raise" THEN key
    ELSE Return(("API-Key" :> api_key) @@
                ("API-Sign" :> b64encode(hmac_sha512(key.value, msg))))

-----------------------------------------------------------------------------
(* Transport *)

\* one HTTP request handed to the session
Request(method, url, params, headers) ==
    [method |-> method, url |-> url, params |-> params, headers |-> headers]
NoHeaders == <<>>

\* the result is returned whenever the envelope has one, errors or not
unwrap_result_first(exchange) ==
    IF exchange.kind = "fault" THEN Raise(exchange.type, exchange.msg)
    ELSE LET parsed == json(exchange)
         IN IF parsed.kind = "raise" THEN parsed
            ELSE LET data == parsed.value
                     errors == Get(data, "error", <<>>)
                 IN IF "result" \in DOMAIN data
                    THEN Return(data["result"])
                    ELSE IF errors # <<>>
                    THEN Raise("AdapterError", "Kraken error: " \o join("; ", errors))
                    ELSE Return(data)

\* the envelope is returned as it is parsed, never unwrapped
unwrap_whole_envelope(exchange) ==
    IF exchange.kind = "fault" THEN Raise(exchange.type, exchange.msg)
    ELSE LET parsed == json(exchange)
         IN IF parsed.kind = "raise" THEN parsed
            ELSE LET data == parsed.value
                     errors == Get(data, "error", <<>>)
                 IN IF errors # <<>>
                    THEN Raise("AdapterError", "Kraken error: " \o join("; ", errors))
                    ELSE Return(data)

\* the tail of the try block of call_api once the session has answered:
\* parse the envelope, raise on errors, unwrap the result
unwrap(exchange) ==
    IF exchange.kind = "fault" THEN Raise(exchange.type, exchange.msg)
    ELSE LET parsed == json(exchange)
         IN IF parsed.kind = "raise" THEN parsed
            ELSE LET data == parsed.value
                     errors == Get(data, "error", <<>>)
                 IN IF errors # <<>>
                    THEN Raise("AdapterError", "Kraken error: " \o join("; ", errors))
                    ELSE Return(Get(data, "result", data))

\* the except clauses without the one for timeouts
call_api_except_no_timeout(exc) ==
    IF IsInstance(exc, {"requests.ConnectionError", "ConnectionError"})
    THEN RaiseFrom("AdapterConnectionError", "Cannot reach Kraken: " \o exc.msg, exc)
    ELSE IF IsInstance(exc, {"AdapterError"})
    THEN exc
    ELSE IF IsInstance(exc, {"Exception"})
    THEN RaiseFrom("AdapterError", "Kraken request failed: " \o exc.msg, exc)
    ELSE exc

\* the except clauses of call_api, tried in order
call_api_except(exc) ==
    IF IsInstance(exc, {"requests.ConnectionError", "ConnectionError"})
    THEN RaiseFrom("AdapterConnectionError", "Cannot reach Kraken: " \o exc.msg, exc)
    ELSE IF IsInstance(exc, {"requests.Timeout", "TimeoutError"})
    THEN RaiseFrom("AdapterConnectionError", "Kraken request timed out: " \o exc.msg, exc)
    ELSE IF IsInstance(exc, {"AdapterError"})
    THEN exc
    ELSE IF IsInstance(exc, {"Exception"})
    THEN RaiseFrom("AdapterError", "Kraken request failed: " \o exc.msg, exc)
    ELSE exc

\* only the key is required
credentials_missing_key_only(api_key, api_secret) == api_key \in {None, ""}

\* not self._api_key or not self._api_secret
credentials_missing(api_key, api_secret) ==
    api_key \in {None, ""} \/ api_secret \in {None, ""}

\* one run of the signer: its arguments and what it gave
Signing(urlpath, nonce, data, result) ==
    [urlpath |-> urlpath, nonce |-> nonce, data |-> data, result |-> result]

\* call_api signing the mapping first and inserting the nonce afterwards
call_api_try_signs_before_nonce(api_key, api_secret, native_request, now, exchange) ==
    LET method == native_request.method
        endpoint == native_request.endpoint
        url == BASE_URL \o endpoint
        params == Get(native_request, "params", <<>>)
        signed == Get(native_request, "signed", FALSE)
        Step(ps, ns, sg, rs, res) ==
            [params |-> ps, nonce |-> ns, signing |-> sg, request |-> rs, result |-> res]
    IN
    IF method = "GET" THEN
        Step(params, <<>>, <<>>, <<Request("GET", url, params, NoHeaders)>>,
             unwrap(exchange))
    ELSE IF method = "POST" THEN
        IF signed THEN
            IF credentials_missing(api_key, api_secret) THEN
                Step(params, <<>>, <<>>, <<>>,
                     Raise("AdapterError", "API key and secret required for signed requests."))
            ELSE
                LET nonce == IntToStr(now)
                    headers == _sign_request(api_key, api_secret, endpoint, nonce, params)
                    signedParams == SetItem(params, "nonce", PyStr(nonce))
                    signing == <<Signing(endpoint, nonce, params, headers)>>
                IN IF headers.kind = "raise"
                   THEN Step(signedParams, <<nonce>>, signing, <<>>, headers)
                   ELSE Step(signedParams, <<nonce>>, signing,
                             <<Request("POST", url, signedParams, headers.value)>>,
                             unwrap(exchange))
        ELSE
            Step(params, <<>>, <<>>, <<Request("POST", url, params, NoHeaders)>>,
                 unwrap(exchange))
    ELSE
        Step(params, <<>>, <<>>, <<>>,
             Raise("AdapterError", "Unknown HTTP method: " \o method))

\* the try block of call_api for descriptor native_request at clock reading now,
\* the session answering with exchange.  Gives the parameter mapping as the
\* call leaves it, the nonce issued (if any), the run of the signer (if any),
\* the request sent (if any) and the result of the block before the except
\* clauses.
call_api_try(api_key, api_secret, native_request, now, exchange) ==
    LET method == native_request.method
        endpoint == native_request.endpoint
        url == BASE_URL \o endpoint
        params == Get(native_request, "params", <<>>)
        signed == Get(native_request, "signed", FALSE)
        Step(ps, ns, sg, rs, res) ==
            [params |-> ps, nonce |-> ns, signing |-> sg, request |-> rs, result |-> res]
    IN
    IF method = "GET" THEN
        Step(params, <<>>, <<>>, <<Request("GET", url, params, NoHeaders)>>,
             unwrap(exchange))
    ELSE IF method = "POST" THEN
        IF signed THEN
            IF credentials_missing(api_key, api_secret) THEN
                Step(params, <<>>, <<>>, <<>>,
                     Raise("AdapterError", "API key and secret required for signed requests."))
            ELSE
                LET nonce == IntToStr(now)
                    signedParams == SetItem(params, "nonce", PyStr(nonce))
                    headers == _sign_request(api_key, api_secret, endpoint, nonce, signedParams)
                    signing == <<Signing(endpoint, nonce, signedParams, headers)>>
                IN IF headers.kind = "raise"
                   THEN Step(signedParams, <<nonce>>, signing, <<>>, headers)
                   ELSE Step(signedParams, <<nonce>>, signing,
                             <<Request("POST", url, signedParams, headers.value)>>,
                             unwrap(exchange))
        ELSE
            Step(params, <<>>, <<>>, <<Request("POST", url, params, NoHeaders)>>,
                 unwrap(exchange))
    ELSE
        Step(params, <<>>, <<>>, <<>>,
             Raise("AdapterError", "Unknown HTTP method: " \o method))

\* call_api(native_request): the whole call
call_api(api_key, api_secret, native_request, now, exchange) ==
    LET try == call_api_try(api_key, api_secret, native_request, now, exchange)
    IN [try EXCEPT !.result = IF @.kind = "raise" THEN call_api_except(@) ELSE @]

\* the descriptors handed to call_api: some built by to_native, some by hand
Translations ==
    {to_native(Msg("ACT.QUERY.DATA", [symbol |-> PyStr(<<"x", "b", "t">>)])),
     to_native(Msg("ACT.QUERY.BALANCE", <<>>)),
     to_native(Msg("ACT.TRANSACT.REQUEST",
                   [symbol |-> PyStr(<<"x", "b", "t">>), side |-> PyStr(<<"B", "U", "Y">>),
                    quantity |-> PyFloat(0, <<0, 0, 1>>)]))}

NativeRequests ==
    {t.value : t \in Translations}
    \cup {[method |-> "GET", endpoint |-> ENDPOINTS.ticker, signed |-> FALSE],
          [method |-> "POST", endpoint |-> ENDPOINTS.balance, signed |-> TRUE],
          Descriptor("POST", ENDPOINTS.server_time, <<>>, FALSE),
          Descriptor("GET", ENDPOINTS.open_orders, <<>>, TRUE),
          Descriptor("DELETE", ENDPOINTS.cancel_order, <<>>, TRUE)}

\* how many signed calls the model lets the adapter issue
MaxNonces == 2
\* how many sessions the model lets the adapter open
MaxSessions == 2
\* how far the clock may run beyond Epoch
ClockSpan == 1

\* time passes
ClockAdvance ==
    /\ clock < Epoch + ClockSpan
    /\ clock' = clock + 1
    /\ UNCHANGED <<_api_key, _api_secret, _session, sessions, connected,
                   nonces, signings, sent, message, native, call, outcome>>

\* the wall clock is set back
ClockStepBack ==
    /\ clock > Epoch
    /\ clock' = clock - 1
    /\ UNCHANGED <<_api_key, _api_secret, _session, sessions, connected,
                   nonces, signings, sent, message, native, call, outcome>>

\* the descriptor object of the previous call_api, as that call left it
PreviousRequest ==
    IF call.op = "call_api" THEN {call.native_request} ELSE {}

\* adapter.call_api(native_request), the session answering with exchange
CallApi(requests, exchanges) ==
    /\ _session = 0 => Len(sessions) < MaxSessions
    /\ \E native_request \in requests \cup PreviousRequest, exchange \in exchanges :
          LET r == call_api(_api_key, _api_secret, native_request, clock, exchange)
          IN /\ r.nonce # <<>> => Len(nonces) < MaxNonces
             /\ nonces' = nonces \o r.nonce
             /\ signings' = signings \cup {r.signing[i] : i \in DOMAIN r.signing}
             /\ sent' = r.request
             /\ call' = [op |-> "call_api",
                         given |-> native_request,
                         native_request |->
                             IF "params" \in DOMAIN native_request
                             THEN [native_request EXCEPT !.params = r.params]
                             ELSE native_request,
                         signing |-> r.signing,
                         exchange |-> IF r.request = <<>> THEN NoExchange ELSE exchange]
             /\ outcome' = r.result
    \* self._ensure_session()
    /\ IF _session = 0
       THEN /\ sessions' = Append(sessions, 0)
            /\ _session' = Len(sessions) + 1
       ELSE UNCHANGED <<_session, sessions>>
    /\ UNCHANGED <<_api_key, _api_secret, connected, clock, message, native>>

\* call_api with any descriptor, the session answering in any way
CallAny == CallApi(NativeRequests, Exchanges)

NextCall == CallAny

SpecCall == Init /\ [][NextCall]_vars

-----------------------------------------------------------------------------
(* Session life cycle *)

\* repr of a list of strings
ListRepr(strings) ==
    "[" \o join(", ", [i \in DOMAIN strings |-> "'" \o strings[i] \o "'"]) \o "]"

\* the try block of connect, the time endpoint answering with exchange
connect_try(exchange) ==
    IF exchange.kind = "fault" THEN Raise(exchange.type, exchange.msg)
    ELSE LET status == raise_for_status(exchange)
         IN IF status.kind = "raise" THEN status
            ELSE LET parsed == json(exchange)
                 IN IF parsed.kind = "raise" THEN parsed
                    ELSE IF Get(parsed.value, "error", <<>>) # <<>>
                    THEN Raise("AdapterConnectionError",
                               "Kraken API error: " \o ListRepr(parsed.value["error"]))
                    ELSE Return(None)

\* the except clauses of connect, tried in order
connect_except(exc) ==
    IF IsInstance(exc, {"requests.ConnectionError"})
    THEN RaiseFrom("AdapterConnectionError", "Cannot reach Kraken API: " \o exc.msg, exc)
    ELSE IF IsInstance(exc, {"requests.HTTPError"})
    THEN RaiseFrom("AdapterConnectionError", "Kraken API error: " \o exc.msg, exc)
    ELSE exc

\* connect(): what the call does, the time endpoint answering with exchange
connect(exchange) ==
    LET try == connect_try(exchange)
    IN IF try.kind = "raise" THEN connect_except(try) ELSE try

\* the answers of the time endpoint
TimeExchanges ==
    Exchanges \cup {Response(500, [error |-> <<>>]), NotJson(503)}

\* adapter.connect(), the time endpoint answering with exchange
Connect ==
    /\ Len(sessions) < MaxSessions
    /\ \E exchange \in TimeExchanges :
          LET r == connect(exchange)
          IN /\ sessions' = Append(sessions, 0)
             /\ _session' = Len(sessions) + 1
             /\ sent' = <<Request("GET", BASE_URL \o ENDPOINTS.server_time, <<>>, NoHeaders)>>
             /\ connected' = IF r.kind = "return" THEN TRUE ELSE connected
             /\ call' = [op |-> "connect", exchange |-> exchange]
             /\ outcome' = r
    /\ UNCHANGED <<_api_key, _api_secret, clock, nonces, signings, message, native>>

\* self._session.close() if there is a session
disconnect_close(session, closed) ==
    IF session # 0 THEN [closed EXCEPT ![session] = @ + 1] ELSE closed

\* disconnect() that leaves self._session in place
Disconnect_keeps_session ==
    /\ sessions' = disconnect_close(_session, sessions)
    /\ _session' = _session
    /\ connected' = FALSE
    /\ sent' = <<>>
    /\ call' = [op |-> "disconnect", had_session |-> _session # 0]
    /\ outcome' = Return(None)
    /\ UNCHANGED <<_api_key, _api_secret, clock, nonces, signings, message, native>>

\* adapter.disconnect()
Disconnect ==
    /\ sessions' = disconnect_close(_session, sessions)
    /\ _session' = 0
    /\ connected' = FALSE
    /\ sent' = <<>>
    /\ call' = [op |-> "disconnect", had_session |-> _session # 0]
    /\ outcome' = Return(None)
    /\ UNCHANGED <<_api_key, _api_secret, clock, nonces, signings, message, native>>

\* the calls made between connect and disconnect
SessionRequests ==
    {to_native(Msg("ACT.QUERY.BALANCE", <<>>)).value,
     to_native(Msg("ACT.TRANSACT.REQUEST",
                   [symbol |-> PyStr(<<"x", "b", "t">>), side |-> PyStr(<<"B", "U", "Y">>),
                    quantity |-> PyFloat(0, <<0, 0, 1>>)])).value,
     to_native(Msg("ACT.QUERY.DATA", [symbol |-> PyStr(<<"x", "b", "t">>)])).value}

SessionExchanges ==
    {Response(200, [error |-> <<>>, result |-> Payload]),
     Response(200, [error |-> <<Err1>>]),
     Fault("requests.ReadTimeout", "read timed out")}

\* call_api on a descriptor of the pipeline
Call == CallApi(SessionRequests, SessionExchanges)

\* the arguments of the direct calls of the signer: those call_api gives it
\* for a balance query at the clock reading Epoch
SignArguments ==
    {[urlpath |-> ENDPOINTS.balance,
      nonce |-> IntToStr(Epoch),
      data |-> <<Entry("nonce", PyStr(IntToStr(Epoch)))>>]}

\* adapter._sign_request(urlpath, nonce, data)
Sign ==
    /\ \E a \in SignArguments :
          LET r == _sign_request(_api_key, _api_secret, a.urlpath, a.nonce, a.data)
              run == Signing(a.urlpath, a.nonce, a.data, r)
          IN /\ signings' = signings \cup {run}
             /\ call' = [op |-> "_sign_request", signing |-> <<run>>]
             /\ outcome' = r
    /\ sent' = <<>>
    /\ UNCHANGED <<_api_key, _api_secret, _session, sessions, connected, clock,
                   nonces, message, native>>

Next == Connect \/ Disconnect \/ Call \/ Sign \/ ClockAdvance \/ ClockStepBack

Spec == Init /\ [][Next]_vars

-----------------------------------------------------------------------------
(* Properties of the translator *)

Range(seq) == {seq[i] : i \in DOMAIN seq}

\* the value a parameter mapping holds under key k
HasKey(params, k) == \E i \in DOMAIN params : params[i].k = k
Lookup(params, k) == params[CHOOSE i \in DOMAIN params : params[i].k = k].v

\* a and b are the same text up to the case of their letters
SameLetters(a, b) ==
    /\ Len(a) = Len(b)
    /\ \A i \in DOMAIN a :
          \/ a[i] = b[i]
          \/ \E j \in DOMAIN LowerChars :
                {a[i], b[i]} = {LowerChars[j], UpperChars[j]}

IsUpperCase(a) == \A i \in DOMAIN a : a[i] \notin Range(LowerChars)
IsLowerCase(a) == \A i \in DOMAIN a : a[i] \notin Range(UpperChars)

\* the number a sequence of decimal digits denotes
RECURSIVE ParseNat(_)
ParseNat(chars) ==
    IF chars = <<>> THEN 0
    ELSE 10 * ParseNat(SubSeq(chars, 1, Len(chars) - 1))
            + (IndexOf(chars[Len(chars)], DigitChars) - 1)

IsDigits(chars) == chars # <<>> /\ \A i \in DOMAIN chars : chars[i] \in Range(DigitChars)

\* chars is the string form of the number or text v
IsStringOf(chars, v) ==
    CASE v.t = "str" -> chars = v.s
      [] v.t = "int" -> IsDigits(chars) /\ ParseNat(chars) = v.n
      [] v.t = "float" ->
            \E d \in DOMAIN chars :
                /\ chars[d] = "."
                /\ IsDigits(SubSeq(chars, 1, d - 1))
                /\ ParseNat(SubSeq(chars, 1, d - 1)) = v.n
                /\ Len(chars) - d = Len(v.f)
                /\ \A i \in DOMAIN v.f : chars[d + i] = DigitChars[v.f[i] + 1]
      [] OTHER -> FALSE

Translated == native # NoOutcome
MsgParams == Get(message, "parameters", <<>>)
Fails(msg) == native.kind = "raise" /\ native.type = "AdapterError" /\ native.msg = msg

\* the route the fixed table assigns to each action
Route ==
    ("ACT.QUERY.DATA" :>
        [endpoints |-> {"/0/public/Ticker", "/0/public/OHLC", "/0/public/Depth"},
         method |-> "GET", signed |-> FALSE]) @@
    ("ACT.QUERY.STATUS" :>
        [endpoints |-> {"/0/private/QueryOrders"}, method |-> "POST", signed |-> TRUE]) @@
    ("ACT.TRANSACT.REQUEST" :>
        [endpoints |-> {"/0/private/AddOrder"}, method |-> "POST", signed |-> TRUE]) @@
    ("ACT.CANCEL" :>
        [endpoints |-> {"/0/private/CancelOrder"}, method |-> "POST", signed |-> TRUE]) @@
    ("ACT.QUERY.LIST" :>
        [endpoints |-> {"/0/private/OpenOrders"}, method |-> "POST", signed |-> TRUE]) @@
    ("ACT.QUERY.BALANCE" :>
        [endpoints |-> {"/0/private/Balance"}, method |-> "POST", signed |-> TRUE])

IsLimitWord(v) ==
    /\ v.t = "str"
    /\ Len(v.s) = 5
    /\ v.s[1] \in {"l", "L"} /\ v.s[2] \in {"i", "I"} /\ v.s[3] \in {"m", "M"}
    /\ v.s[4] \in {"i", "I"} /\ v.s[5] \in {"t", "T"}

GivenSymbol(p) == "symbol" \in DOMAIN p /\ p["symbol"].t = "str" /\ p["symbol"].s # <<>>

\* the message carries the parameters its action requires
HasRequired(action, p) ==
    CASE action = "ACT.QUERY.DATA" ->
            \/ "type" \notin DOMAIN p
            \/ p["type"] \in {PyStr(W_price), PyStr(W_24h)}
            \/ p["type"] \in {PyStr(W_klines), PyStr(W_depth)} /\ GivenSymbol(p)
      [] action = "ACT.TRANSACT.REQUEST" ->
            /\ {"symbol", "side", "quantity"} \subseteq DOMAIN p
            /\ ("order_type" \in DOMAIN p /\ IsLimitWord(p["order_type"]))
                   => "price" \in DOMAIN p
      [] action \in {"ACT.CANCEL", "ACT.QUERY.STATUS"} -> "order_id" \in DOMAIN p
      [] OTHER -> TRUE

\* C1: an action of the dispatch table, given its required parameters, yields a
\* descriptor whose endpoint, method and signed flag are those the fixed table
\* assigns to it; an action outside the table fails with the unsupported-action
\* error and yields no descriptor.
C1_DispatchTable ==
    Translated =>
        IF message.action \in DOMAIN Route
        THEN /\ HasRequired(message.action, MsgParams) => native.kind = "return"
             /\ native.kind = "return" =>
                    /\ native.value.endpoint \in Route[message.action].endpoints
                    /\ native.value.method = Route[message.action].method
                    /\ native.value.signed = Route[message.action].signed
        ELSE Fails("Unsupported action '" \o message.action
                   \o "'. Supported: ['ACT.QUERY.DATA', 'ACT.QUERY.STATUS', "
                   \o "'ACT.TRANSACT.REQUEST', 'ACT.CANCEL', 'ACT.QUERY.LIST', "
                   \o "'ACT.QUERY.BALANCE']")

\* a cancel request was routed to CancelOrder
C1_Witness ==
    /\ message.action = "ACT.CANCEL"
    /\ native.kind = "return"
    /\ native.value.endpoint = "/0/private/CancelOrder"
    /\ native.value.method = "POST"

\* C7: order placement checks symbol, side, quantity in that order and fails
\* naming the first absent one; an order type that lowercases to "limit" also
\* requires price; otherwise the descriptor carries pair = uppercase(symbol),
\* type = lowercase(side), ordertype (default "market"), and volume and price
\* as strings.
C7_OrderPlacement ==
    (Translated /\ message.action = "ACT.TRANSACT.REQUEST") =>
        LET p == MsgParams
            limit == "order_type" \in DOMAIN p /\ IsLimitWord(p["order_type"])
        IN
        IF "symbol" \notin DOMAIN p
        THEN Fails("Missing required field 'symbol' for order placement.")
        ELSE IF "side" \notin DOMAIN p
        THEN Fails("Missing required field 'side' for order placement.")
        ELSE IF "quantity" \notin DOMAIN p
        THEN Fails("Missing required field 'quantity' for order placement.")
        ELSE IF limit /\ "price" \notin DOMAIN p
        THEN Fails("Price required for LIMIT orders.")
        ELSE /\ native.kind = "return"
             /\ LET d == native.value.params
                IN /\ {d[i].k : i \in DOMAIN d} =
                          {"pair", "type", "ordertype", "volume"}
                              \cup (IF limit THEN {"price"} ELSE {})
                   /\ Lookup(d, "pair").t = "str"
                   /\ IsUpperCase(Lookup(d, "pair").s)
                   /\ SameLetters(Lookup(d, "pair").s, p["symbol"].s)
                   /\ Lookup(d, "type").t = "str"
                   /\ IsLowerCase(Lookup(d, "type").s)
                   /\ SameLetters(Lookup(d, "type").s, p["side"].s)
                   /\ Lookup(d, "ordertype").t = "str"
                   /\ IF "order_type" \in DOMAIN p
                      THEN /\ IsLowerCase(Lookup(d, "ordertype").s)
                           /\ SameLetters(Lookup(d, "ordertype").s, p["order_type"].s)
                      ELSE Lookup(d, "ordertype").s = <<"m", "a", "r", "k", "e", "t">>
                   /\ Lookup(d, "volume").t = "str"
                   /\ IsStringOf(Lookup(d, "volume").s, p["quantity"])
                   /\ limit =>
                          /\ Lookup(d, "price").t = "str"
                          /\ IsStringOf(Lookup(d, "price").s, p["price"])

\* a limit order written "LIMIT" with a numeric price and quantity was translated
C7_Witness ==
    /\ message.action = "ACT.TRANSACT.REQUEST"
    /\ {"symbol", "side", "quantity", "price"} \subseteq DOMAIN MsgParams
    /\ Get(MsgParams, "order_type", PyNone) = PyStr(<<"L", "I", "M", "I", "T">>)
    /\ MsgParams["quantity"] = PyFloat(0, <<0, 0, 1>>)
    /\ native.kind = "return"
    /\ Lookup(native.value.params, "volume") = PyStr(<<"0", ".", "0", "0", "1">>)
    /\ Lookup(native.value.params, "price") = PyStr(<<"2", "0", "0", "0">>)

\* C8: a market-data query without type, or of type "price" or "24h", is a
\* ticker lookup that needs no symbol; "klines" and "depth" fail without a
\* symbol and otherwise give the OHLC (interval default 60) and order-book
\* (count default 20) descriptors; any other type fails; a given symbol is
\* uppercased into the pair field.
C8_MarketQuery ==
    (Translated /\ message.action = "ACT.QUERY.DATA") =>
        LET p == MsgParams
            given == GivenSymbol(p)
            pairOk == /\ HasKey(native.value.params, "pair")
                      /\ IsUpperCase(Lookup(native.value.params, "pair").s)
                      /\ SameLetters(Lookup(native.value.params, "pair").s, p["symbol"].s)
        IN
        IF "type" \notin DOMAIN p \/ Get(p, "type", PyNone) \in {PyStr(W_price), PyStr(W_24h)}
        THEN /\ native.kind = "return"
             /\ native.value.endpoint = "/0/public/Ticker"
             /\ given => pairOk
             /\ ~given => native.value.params = <<>>
        ELSE IF p["type"] = PyStr(<<"k", "l", "i", "n", "e", "s">>)
        THEN IF ~given THEN Fails("Symbol required for klines query.")
             ELSE /\ native.kind = "return"
                  /\ native.value.endpoint = "/0/public/OHLC"
                  /\ pairOk
                  /\ Lookup(native.value.params, "interval") =
                         (IF "interval" \in DOMAIN p THEN p["interval"] ELSE PyInt(60))
        ELSE IF p["type"] = PyStr(<<"d", "e", "p", "t", "h">>)
        THEN IF ~given THEN Fails("Symbol required for depth query.")
             ELSE /\ native.kind = "return"
                  /\ native.value.endpoint = "/0/public/Depth"
                  /\ pairOk
                  /\ Lookup(native.value.params, "count") =
                         (IF "limit" \in DOMAIN p THEN p["limit"] ELSE PyInt(20))
        ELSE Fails("Unknown query type '" \o Text(p["type"].s)
                   \o "'. Use: price, 24h, klines, depth.")

\* a klines query for a lower-case symbol, without interval, was translated
C8_Witness ==
    /\ message.action = "ACT.QUERY.DATA"
    /\ Get(MsgParams, "type", PyNone) = PyStr(W_klines)
    /\ Get(MsgParams, "symbol", PyNone) = PyStr(<<"x", "b", "t">>)
    /\ "interval" \notin DOMAIN MsgParams
    /\ native.kind = "return"
    /\ Lookup(native.value.params, "pair") = PyStr(<<"X", "B", "T">>)
    /\ Lookup(native.value.params, "interval") = PyInt(60)

-----------------------------------------------------------------------------
(* Properties of the transport *)

Called == call.op = "call_api"
\* the session answered the last call_api with a parsed envelope
Answered == Called /\ call.exchange.kind = "response" /\ call.exchange.json
ErrorList == Get(call.exchange.body, "error", <<>>)
MarkedSigned == Get(call.given, "signed", FALSE)
CredentialsAbsent == _api_key \in {None, ""} \/ _api_secret \in {None, ""}
MissingCredentials ==
    outcome = Raise("AdapterError", "API key and secret required for signed requests.")

\* the strings of a non-empty list with "; " between them
RECURSIVE Joined(_)
Joined(strings) ==
    IF Len(strings) = 1 THEN strings[1]
    ELSE Joined(SubSeq(strings, 1, Len(strings) - 1)) \o "; " \o strings[Len(strings)]

\* C2: an envelope with a non-empty error list makes call_api fail with the
\* remote error whose message joins the error strings with "; ", whatever the
\* method and whether or not the envelope also carries a result.
C2_RemoteError ==
    (Answered /\ ErrorList # <<>>) =>
        outcome = Raise("AdapterError", "Kraken error: " \o Joined(ErrorList))

\* a signed POST was answered with an error list and a result payload
C2_Witness ==
    /\ Answered
    /\ call.given.method = "POST"
    /\ MarkedSigned
    /\ call.exchange.body = [error |-> <<Err1>>, result |-> Payload]
    /\ outcome.kind = "raise"
    /\ outcome.msg = "Kraken error: EGeneral:Invalid arguments"

\* C9: an envelope with an empty or absent error list makes call_api return the
\* result payload as it is, or the whole envelope when it has no result field,
\* and raise nothing.
C9_ResultUnwrapped ==
    (Answered /\ ErrorList = <<>>) =>
        /\ outcome.kind = "return"
        /\ "result" \in DOMAIN call.exchange.body =>
               outcome.value = call.exchange.body["result"]
        /\ "result" \notin DOMAIN call.exchange.body =>
               outcome.value = call.exchange.body

\* an envelope without error field was unwrapped to its payload
C9_Witness ==
    /\ Answered
    /\ call.exchange.body = [result |-> Payload]
    /\ outcome = Return([XXBTZUSD |-> "65000.00"])

\* C4 as claimed: every descriptor marked signed fails with the
\* missing-credentials error, and sends nothing, when the key or the secret is
\* absent.
C4_EverySignedDescriptor ==
    (Called /\ MarkedSigned /\ CredentialsAbsent) =>
        (MissingCredentials /\ sent = <<>>)

\* C4: a POST descriptor marked signed fails with the missing-credentials error,
\* and sends nothing, when the key or the secret is absent; a descriptor not
\* marked signed never fails for missing credentials: its request is sent with
\* or without them.
C4_SignedPostNeedsCredentials ==
    Called =>
        /\ (call.given.method = "POST" /\ MarkedSigned /\ CredentialsAbsent) =>
               (MissingCredentials /\ sent = <<>>)
        /\ ~MarkedSigned =>
               /\ ~MissingCredentials
               /\ call.given.method \in {"GET", "POST"} => sent # <<>>

\* a signed POST on an adapter that has a key but no secret was refused
C4_Witness ==
    /\ Called
    /\ _api_key = "test-key"
    /\ _api_secret = None
    /\ call.given.method = "POST"
    /\ MarkedSigned
    /\ MissingCredentials
    /\ sent = <<>>

NetworkFaults ==
    {"requests.ConnectionError", "requests.ConnectTimeout", "requests.ReadTimeout",
     "ConnectionError", "TimeoutError"}

\* the exception the try block of the last call_api met first, if any
FirstFailure ==
    IF call.given.method \notin {"GET", "POST"}
    THEN Raise("AdapterError", "Unknown HTTP method: " \o call.given.method)
    ELSE IF call.given.method = "POST" /\ MarkedSigned /\ CredentialsAbsent
    THEN Raise("AdapterError", "API key and secret required for signed requests.")
    ELSE IF call.given.method = "POST" /\ MarkedSigned /\ _api_secret = "abc"
    THEN Raise("binascii.Error", "Incorrect padding")
    ELSE IF call.exchange.kind = "fault"
    THEN Raise(call.exchange.type, call.exchange.msg)
    ELSE IF ~call.exchange.json
    THEN Raise("requests.JSONDecodeError", "Expecting value")
    ELSE IF ErrorList # <<>>
    THEN Raise("AdapterError", "Kraken error: " \o Joined(ErrorList))
    ELSE NoOutcome

\* C10: a network failure of the HTTP call (connection error, timeout) is raised
\* as AdapterConnectionError; an AdapterError raised inside the call propagates
\* unchanged; any other exception is wrapped into an AdapterError carrying it
\* as cause; a call that met a failure never returns normally.
C10_ErrorClassification ==
    Called =>
        LET failure == FirstFailure
        IN CASE failure = NoOutcome -> outcome.kind = "return"
             [] failure # NoOutcome /\ failure.type \in NetworkFaults ->
                    /\ outcome.kind = "raise"
                    /\ outcome.type = "AdapterConnectionError"
                    /\ outcome.cause = failure
             [] failure # NoOutcome /\ failure.type = "AdapterError" ->
                    outcome = failure
             [] OTHER ->
                    /\ outcome.kind = "raise"
                    /\ outcome.type = "AdapterError"
                    /\ outcome.msg = "Kraken request failed: " \o failure.msg
                    /\ outcome.cause = failure

\* a read timeout of the HTTP call was raised as a connection failure
C10_Witness ==
    /\ Called
    /\ call.exchange = Fault("requests.ReadTimeout", "read timed out")
    /\ outcome.kind = "raise"
    /\ outcome.type = "AdapterConnectionError"
    /\ outcome.msg = "Kraken request timed out: read timed out"

-----------------------------------------------------------------------------
(* Properties of the nonce and of the session life cycle *)

\* C3: every signed call carries a nonce strictly greater than the nonce of
\* every signed call issued before it.
C3_NoncesStrictlyIncrease ==
    \A i, j \in DOMAIN nonces :
        i < j => ParseNat(nonces[i]) < ParseNat(nonces[j])

Connecting == call.op = "connect"

\* the network-level errors of the time-endpoint request
ConnectNetworkError ==
    \/ /\ call.exchange.kind = "fault"
       /\ call.exchange.type \in {"requests.ConnectionError", "requests.ConnectTimeout",
                                   "requests.ReadTimeout"}
    \/ /\ call.exchange.kind = "response"
       /\ call.exchange.status >= 400

\* the time endpoint answered with an envelope that lists errors
ConnectErrorList ==
    /\ call.exchange.kind = "response"
    /\ call.exchange.json
    /\ Get(call.exchange.body, "error", <<>>) # <<>>

\* the time endpoint answered well
ConnectAnswered ==
    /\ call.exchange.kind = "response"
    /\ call.exchange.status < 400
    /\ call.exchange.json
    /\ Get(call.exchange.body, "error", <<>>) = <<>>

\* C5: connect fails with the connection-failure error when the time endpoint
\* answers with a non-empty error list or a network-level error occurs
\* (connection refused, DNS failure, timeout, HTTP error status), and otherwise
\* returns with connected = TRUE.
C5_ConnectFailure ==
    Connecting =>
        /\ (ConnectNetworkError \/ ConnectErrorList) =>
               (outcome.kind = "raise" /\ outcome.type = "AdapterConnectionError")
        /\ ConnectAnswered => (outcome.kind = "return" /\ connected)

Disconnected == call.op = "disconnect"

\* C6: disconnect raises nothing with or without a session and leaves the
\* session absent and connected = FALSE; it closes an existing session once and
\* no session is ever closed twice; a disconnect that follows a disconnect
\* changes nothing.
C6_DisconnectIdempotent ==
    [][Disconnected' =>
          /\ outcome'.kind = "return"
          /\ _session' = 0
          /\ connected' = FALSE
          /\ \A i \in DOMAIN sessions' : sessions'[i] <= 1
          /\ _session # 0 =>
                 sessions' = [sessions EXCEPT ![_session] = 1]
          /\ _session = 0 => sessions' = sessions
          /\ Disconnected =>
                 <<_session, sessions, connected>>' = <<_session, sessions, connected>>
      ]_vars

\* a disconnect found no session after an earlier disconnect had closed one
C6_Witness ==
    /\ Disconnected
    /\ ~call.had_session
    /\ \E i \in DOMAIN sessions : sessions[i] = 1
    /\ _session = 0
    /\ connected = FALSE

-----------------------------------------------------------------------------
(* Properties of the connected flag *)

\* the step is a call of connect (connect always opens a session)
ConnectStep == call'.op = "connect" /\ sessions' # sessions

\* C13: connected is true only after a connect that returned and with no
\* disconnect since: a connect that raises leaves connected = FALSE, also on an
\* adapter that was connected, a connect that returns leaves it TRUE, a
\* disconnect leaves it FALSE, and call_api does not change it.
C13_ConnectedFlag ==
    [][/\ (ConnectStep /\ outcome'.kind = "raise") => connected' = FALSE
       /\ (ConnectStep /\ outcome'.kind = "return") => connected' = TRUE
       /\ call'.op = "disconnect" => connected' = FALSE
       /\ call'.op = "call_api" => connected' = connected
      ]_vars

-----------------------------------------------------------------------------
(* Properties of the signed POST *)

SignedPost == Called /\ call.given.method = "POST" /\ MarkedSigned

\* the entries of a mapping other than the nonce, in order
WithoutNonce(params) == SelectSeq(params, LAMBDA e : e.k # "nonce")

\* C12: a signed POST checks the credentials before anything else; it then
\* issues the nonce, stores it under the nonce key of the mapping, signs that
\* mapping with that nonce and sends exactly the mapping signed, with the two
\* headers the signer gave; the mapping has one nonce key and otherwise the
\* entries of the descriptor in their order, also for a descriptor passed again.
C12_SignedPostSteps ==
    SignedPost =>
        IF CredentialsAbsent
        THEN /\ call.signing = <<>>
             /\ sent = <<>>
             /\ call.native_request = call.given
        ELSE /\ Len(call.signing) = 1
             /\ LET sg == call.signing[1]
                    given == Get(call.given, "params", <<>>)
                IN /\ sg.urlpath = call.given.endpoint
                   /\ nonces # <<>>
                   /\ nonces[Len(nonces)] = sg.nonce
                   /\ Cardinality({i \in DOMAIN sg.data : sg.data[i].k = "nonce"}) = 1
                   /\ Lookup(sg.data, "nonce") = PyStr(sg.nonce)
                   /\ WithoutNonce(sg.data) = WithoutNonce(given)
                   /\ "params" \in DOMAIN call.given =>
                          call.native_request["params"] = sg.data
                   /\ sg.result.kind = "raise" => sent = <<>>
                   /\ sg.result.kind = "return" =>
                          sent = <<Request("POST", BASE_URL \o call.given.endpoint,
                                           sg.data, sg.result.value)>>

\* an order descriptor that carried the nonce of an earlier call was signed and
\* sent again with a new nonce in the same place
C12_Witness ==
    /\ SignedPost
    /\ call.given.endpoint = "/0/private/AddOrder"
    /\ HasKey(call.given.params, "nonce")
    /\ sent # <<>>
    /\ Len(sent[1].params) = 5
    /\ sent[1].params[5].k = "nonce"
    /\ sent[1].params[5].v # call.given.params[5].v
    /\ sent[1].headers["API-Key"] = "test-key"

-----------------------------------------------------------------------------
(* Properties of the signer *)

====
